---- MODULE Spec2Model ----
(***************************************************************************)
(* A model of hf_asr_scraper.py: the HuggingFaceASRScraper class (listing  *)
(* of model names per language code, stats lookup with model_cache, the    *)
(* three passes of scrape_all_languages, create_language_matrix,           *)
(* save_results) and main.  The network is the environment: every page     *)
(* fetch and every metadata GET draws its outcome from a bounded set.      *)
(***************************************************************************)
EXTENDS Integers, Sequences, FiniteSets, TLC

\* ------------------------------------------------------------------ bounds
\* Most identifiers one parsed result page holds.
MaxPageLen == 1
\* Largest like count a metadata payload carries.
MaxLikes == 1
\* Most get_model_stats calls a client of the scraper makes (SpecStats).
MaxCalls == 3

\* The model identifiers the upstream catalog can list.
Models == {"modelA", "modelB", "modelC"}

\* ------------------------------------------------------- program constants
\* LANGUAGES, restricted to the first two of its eleven entries (one language
\* with two code aliases, one with a single alias).
LANGUAGES ==
  << [name |-> "Zulu", codes |-> <<"zu", "zul">>],
     [name |-> "Luo",  codes |-> <<"luo">>] >>

LanguageNames == {LANGUAGES[i].name : i \in 1..Len(LANGUAGES)}

\* max_pages: the default of get_model_names_for_language, and the value
\* scrape_all_languages passes.
DefaultMaxPages == 3
ScrapeMaxPages == 2

\* ------------------------------------------------------------- helpers
Range(s) == {s[i] : i \in 1..Len(s)}

SeqsUpTo(S, n) == UNION {[1..k -> S] : k \in 0..n}

EmptyDict == [x \in {} |-> x]

\* ------------------------------------------------- listing: one page
\* What one iteration of the page loop gets from the network and the parser:
\* ok = FALSE when session.get or raise_for_status raised (network error,
\* timeout, non-success status), else page_models is the parsed list.
PageResponses ==
  {[ok |-> FALSE, page_models |-> <<>>]}
    \cup {[ok |-> TRUE, page_models |-> s] : s \in SeqsUpTo(Models, MaxPageLen)}

\* Mutant: only a failed fetch ends the loop, an empty page does not.
BreaksOnlyOnError(r) == ~r.ok

\* The two `break`s of the page loop: the except branch, and `not page_models`.
Breaks(r) == ~r.ok \/ r.page_models = <<>>

\* Mutant: a failed fetch throws away what earlier pages gave.
ExtendOrClear(model_names, r) ==
  IF ~r.ok THEN <<>>
  ELSE IF r.page_models = <<>> THEN model_names
  ELSE model_names \o r.page_models

\* model_names after one iteration: extended unless the iteration breaks.
Extend(model_names, r) ==
  IF Breaks(r) THEN model_names ELSE model_names \o r.page_models

\* The whole call, given the responses the pages would get.
RECURSIVE PageLoop(_, _, _, _)
PageLoop(resp, p, max_pages, model_names) ==
  IF p >= max_pages THEN model_names
  ELSE IF Breaks(resp[p + 1]) THEN Extend(model_names, resp[p + 1])
  ELSE PageLoop(resp, p + 1, max_pages, Extend(model_names, resp[p + 1]))

get_model_names_for_language(resp, max_pages) ==
  PageLoop(resp, 0, max_pages, <<>>)

\* Mutant: update replaces the set instead of adding to it.
UpdateReplaces(set, model_names) == Range(model_names)

\* set.update(model_names)
Update(set, model_names) == set \cup Range(model_names)

\* What `get_model_names_for_language(code, max_pages=2)` can return.
ScrapeListings ==
  {get_model_names_for_language(resp, ScrapeMaxPages) :
     resp \in [1..ScrapeMaxPages -> PageResponses]}

\* --------------------------------------------------- stats: one lookup
\* A JSON object: a set of <<key, value>> pairs with distinct keys.
DictGet(d, k, default) ==
  IF \E p \in d : p[1] = k THEN (CHOOSE p \in d : p[1] = k)[2] ELSE default

DownloadsData == {{}, {<<"downloads", 1>>, <<"downloadsAllTime", 2>>}}
LikesData == {{}} \cup {{<<"likes", n>>} : n \in 1..MaxLikes}

\* What one metadata GET gives: raised = session.get raised (network error,
\* timeout); else a status code and a body that parses as JSON (json_ok, with
\* the object in data) or does not.
MetadataResponses(Data) ==
  {[raised |-> TRUE, status |-> 200, json_ok |-> FALSE, data |-> {}]}
    \cup {[raised |-> FALSE, status |-> 404, json_ok |-> j, data |-> {}] :
            j \in BOOLEAN}
    \cup {[raised |-> FALSE, status |-> 200, json_ok |-> FALSE, data |-> {}]}
    \cup {[raised |-> FALSE, status |-> 200, json_ok |-> TRUE, data |-> d] :
            d \in Data}

DownloadsResponses == MetadataResponses(DownloadsData)
LikesResponses == MetadataResponses(LikesData)

\* `response.json() if response.status_code == 200 else {}`
JsonOrEmpty(r) == IF r.status = 200 THEN r.data ELSE {}

\* The statement of one GET raises: session.get raised, or .json() was called
\* (status 200) on a body that is no JSON object.
Raises(r) == r.raised \/ (r.status = 200 /\ ~r.json_ok)

Url(model_name) == <<"https://huggingface.co/", model_name>>

\* The record of the except branch.
ZeroStats(model_name) ==
  [name |-> model_name, url |-> Url(model_name),
   downloads |-> 0, downloads_all_time |-> 0, likes |-> 0]

\* Mutant: the except branch keeps what the downloads call had returned.
FetchStatsKeepsPartial(model_name, r1, r2) ==
  IF Raises(r1) THEN ZeroStats(model_name)
  ELSE [name |-> model_name, url |-> Url(model_name),
        downloads |-> DictGet(JsonOrEmpty(r1), "downloads", 0),
        downloads_all_time |-> DictGet(JsonOrEmpty(r1), "downloadsAllTime", 0),
        likes |-> IF Raises(r2) THEN 0
                  ELSE DictGet(JsonOrEmpty(r2), "likes", 0)]

\* The try block of get_model_stats on a cache miss: r1 answers the downloads
\* GET, r2 the likes GET (not issued when the first statement raised).
FetchStats(model_name, r1, r2) ==
  IF Raises(r1) \/ Raises(r2) THEN ZeroStats(model_name)
  ELSE [name |-> model_name, url |-> Url(model_name),
        downloads |-> DictGet(JsonOrEmpty(r1), "downloads", 0),
        downloads_all_time |-> DictGet(JsonOrEmpty(r1), "downloadsAllTime", 0),
        likes |-> DictGet(JsonOrEmpty(r2), "likes", 0)]

\* Mutant: the cache is never consulted.
NeverCached(cache, model_name) == FALSE

\* `if model_name in self.model_cache`
Cached(cache, model_name) == model_name \in DOMAIN cache

\* get_model_stats: the record returned, the cache afterwards, the number of
\* GETs issued and whether the except branch ran.
get_model_stats(cache, model_name, r1, r2) ==
  IF Cached(cache, model_name)
  THEN [ret |-> cache[model_name], cache |-> cache, gets |-> 0,
        except |-> FALSE]
  ELSE LET model_stats == FetchStats(model_name, r1, r2) IN
       [ret |-> model_stats,
        cache |-> (model_name :> model_stats) @@ cache,
        gets |-> IF Raises(r1) THEN 1 ELSE 2,
        except |-> Raises(r1) \/ Raises(r2)]

\* ------------------------------------------------ create_language_matrix
\* Python iterates a set in an order the program does not control.
Orders(S) == {s \in [1..Cardinality(S) -> S] : Range(s) = S}

NewInfo(language, model) ==
  [name |-> model.name, url |-> model.url, downloads |-> model.downloads,
   downloads_all_time |-> model.downloads_all_time, likes |-> model.likes,
   supported_languages |-> {language}]

\* Mutant: only the language a model is first seen under is recorded.
AddModelFirstOnly(all_models, language, model) ==
  IF \E i \in 1..Len(all_models) : all_models[i].name = model.name
  THEN all_models
  ELSE Append(all_models, NewInfo(language, model))

\* One iteration of the inner loop: all_models is the dict, kept as the
\* sequence of its values in insertion order.
AddModel(all_models, language, model) ==
  IF \E i \in 1..Len(all_models) : all_models[i].name = model.name
  THEN LET i == CHOOSE j \in 1..Len(all_models) :
                  all_models[j].name = model.name IN
       [all_models EXCEPT ![i].supported_languages = @ \cup {language}]
  ELSE Append(all_models, NewInfo(language, model))

RECURSIVE AddModels(_, _, _, _)
AddModels(all_models, language, models, i) ==
  IF i > Len(models) THEN all_models
  ELSE AddModels(AddModel(all_models, language, models[i]), language,
                 models, i + 1)

\* `for language, models in results.items()`: results holds the languages in
\* the order of LANGUAGES.
RECURSIVE BuildAllModels(_, _, _)
BuildAllModels(all_models, res, l) ==
  IF l > Len(LANGUAGES) THEN all_models
  ELSE IF LANGUAGES[l].name \notin DOMAIN res
       THEN BuildAllModels(all_models, res, l + 1)
       ELSE BuildAllModels(
              AddModels(all_models, LANGUAGES[l].name,
                        res[LANGUAGES[l].name], 1),
              res, l + 1)

\* One row of matrix_data: a function from column names to values.
Row(model_info) ==
  [c \in {"Model", "URL", "Downloads", "Downloads_All_Time", "Likes",
          "Languages_Supported"} \cup LanguageNames |->
     CASE c = "Model" -> model_info.name
       [] c = "URL" -> model_info.url
       [] c = "Downloads" -> model_info.downloads
       [] c = "Downloads_All_Time" -> model_info.downloads_all_time
       [] c = "Likes" -> model_info.likes
       [] c = "Languages_Supported" ->
            Cardinality(model_info.supported_languages)
       [] OTHER -> IF c \in model_info.supported_languages
                   THEN "Yes" ELSE "No"]

MatrixData(res) ==
  LET all_models == BuildAllModels(<<>>, res, 1) IN
  [i \in 1..Len(all_models) |-> Row(all_models[i])]

\* Mutant: the sort ignores Likes.
ComesBeforeNoLikes(a, b) ==
  a["Languages_Supported"] > b["Languages_Supported"]

\* sort_values(['Languages_Supported', 'Likes'], ascending=[False, False]):
\* row a sorts strictly before row b.
ComesBefore(a, b) ==
  \/ a["Languages_Supported"] > b["Languages_Supported"]
  \/ /\ a["Languages_Supported"] = b["Languages_Supported"]
     /\ a["Likes"] > b["Likes"]

\* Insert row into a sorted frame, after the rows it does not come before.
Insert(sorted, row) ==
  LET k == Cardinality({i \in 1..Len(sorted) : ~ComesBefore(row, sorted[i])})
  IN SubSeq(sorted, 1, k) \o <<row>> \o SubSeq(sorted, k + 1, Len(sorted))

RECURSIVE SortFrom(_, _, _)
SortFrom(sorted, rows, i) ==
  IF i > Len(rows) THEN sorted
  ELSE SortFrom(Insert(sorted, rows[i]), rows, i + 1)

SortValues(rows) == SortFrom(<<>>, rows, 1)

\* ------------------------------------------------------------ save_results
Filename(language) ==
  CASE language = "Zulu" -> "asr_models_zulu.csv"
    [] language = "Luo" -> "asr_models_luo.csv"

MatrixFile == "asr_language_support_matrix.csv"

\* The files written, each with its number of rows.
SavedFiles(res, mat) ==
  LET written == {l \in DOMAIN res : res[l] # <<>>} IN
  [f \in {Filename(l) : l \in written} \cup {MatrixFile} |->
     IF f = MatrixFile THEN Len(mat)
     ELSE Len(res[CHOOSE l \in written : Filename(l) = f])]

\* ------------------------------------------------------------------ state
VARIABLES
  pc,                \* where main is: collect, stats, organize, matrix, save,
                     \* done, or error (an exception left main)
  exc,               \* the uncaught exception, "none" while there is none
  lang, code,        \* the loops over LANGUAGES.items() and over codes
  all_unique_models, \* scrape_all_languages: the set of the collect pass
  todo,              \* the names the stats loop has yet to visit
  model_cache,       \* self.model_cache
  language_models,   \* scrape_all_languages: the set of the organize pass
  results,           \* scrape_all_languages: language name -> list of records
  matrix,            \* the frame create_language_matrix returns
  files,             \* the files save_results wrote, with their row counts
  unfetched,         \* history: per language, the names the collect pass
                     \* listed under it whose stats lookup has not succeeded
  listed,            \* history: per language, the names the organize pass listed
  lookups,           \* history: per name, the lookups that reached the network
  lastCall,          \* history: the last client call of get_model_stats
  ncalls,            \* history: the number of client calls made
  max_pages, page, model_names,  \* get_model_names_for_language: its frame
  call,              \* that call: idle, running or returned
  requests,          \* history: the page numbers the call requested
  responses          \* history: what each request got

mainVars == <<pc, exc, todo, language_models, results, matrix, files,
              unfetched, listed>>
statsVars == <<model_cache, lookups>>
clientVars == <<lastCall, ncalls>>
callVars == <<max_pages, page, model_names, call, requests, responses>>
vars == <<mainVars, statsVars, clientVars, callVars, lang, code,
          all_unique_models>>

\* HuggingFaceASRScraper() and the start of main.
Init ==
  /\ pc = "collect"
  /\ exc = "none"
  /\ lang = 1
  /\ code = 1
  /\ all_unique_models = {}
  /\ todo = {}
  /\ model_cache = EmptyDict
  /\ language_models = {}
  /\ results = EmptyDict
  /\ matrix = <<>>
  /\ files = EmptyDict
  /\ unfetched = [l \in LanguageNames |-> {}]
  /\ listed = [l \in LanguageNames |-> {}]
  /\ lookups = [m \in Models |-> 0]
  /\ lastCall = <<>>
  /\ ncalls = 0
  /\ max_pages = ScrapeMaxPages
  /\ page = 0
  /\ model_names = <<>>
  /\ call = "idle"
  /\ requests = <<>>
  /\ responses = <<>>

Codes(l) == LANGUAGES[l].codes
Name(l) == LANGUAGES[l].name
LastCode == code >= Len(Codes(lang))
LastLanguage == lang >= Len(LANGUAGES)

\* -------------------------------------------- main: scrape_all_languages
\* Collect pass, one code: the listing call and the update of the global set.
CollectCode ==
  /\ pc = "collect"
  /\ \E names \in ScrapeListings :
       LET all == Update(all_unique_models, names) IN
       /\ all_unique_models' = all
       /\ unfetched' = [unfetched EXCEPT ![Name(lang)] = @ \cup Range(names)]
       /\ IF ~LastCode
          THEN /\ code' = code + 1
               /\ UNCHANGED <<pc, lang, todo>>
          ELSE IF ~LastLanguage
          THEN /\ lang' = lang + 1
               /\ code' = 1
               /\ UNCHANGED <<pc, todo>>
          ELSE /\ pc' = "stats"
               /\ lang' = 1
               /\ code' = 1
               /\ todo' = all
  /\ UNCHANGED <<exc, language_models, results, matrix, files, listed,
                 statsVars, clientVars, callVars>>

\* Stats pass, one name of all_unique_models.
StatsModel ==
  /\ pc = "stats"
  /\ \E model_name \in todo, r1 \in DownloadsResponses, r2 \in LikesResponses :
       LET g == get_model_stats(model_cache, model_name, r1, r2) IN
       /\ model_cache' = g.cache
       /\ lookups' = [lookups EXCEPT
                        ![model_name] = @ + (IF g.gets > 0 THEN 1 ELSE 0)]
       /\ unfetched' = IF g.except \/ g.gets = 0 THEN unfetched
                       ELSE [l \in LanguageNames |->
                               unfetched[l] \ {model_name}]
       /\ todo' = todo \ {model_name}
  /\ UNCHANGED <<pc, exc, lang, code, all_unique_models, language_models,
                 results, matrix, files, listed, clientVars, callVars>>

\* The stats loop is over.
StartOrganize ==
  /\ pc = "stats"
  /\ todo = {}
  /\ pc' = "organize"
  /\ UNCHANGED <<exc, lang, code, all_unique_models, todo, language_models,
                 results, matrix, files, unfetched, listed, statsVars,
                 clientVars, callVars>>

\* Organize pass, one code: the listing call again, into language_models.
OrganizeCode ==
  /\ pc = "organize"
  /\ code <= Len(Codes(lang))
  /\ \E names \in ScrapeListings :
       /\ language_models' = Update(language_models, names)
       /\ listed' = [listed EXCEPT ![Name(lang)] = @ \cup Range(names)]
  /\ code' = code + 1
  /\ UNCHANGED <<pc, exc, lang, all_unique_models, todo, results, matrix,
                 files, unfetched, statsVars, clientVars, callVars>>

\* Organize pass, the codes of one language done: its names are mapped to
\* their records by `self.model_cache[model_name]`, which raises KeyError on
\* a name the cache does not hold.
OrganizeLanguage ==
  /\ pc = "organize"
  /\ code > Len(Codes(lang))
  /\ IF \E m \in language_models : m \notin DOMAIN model_cache
     THEN /\ pc' = "error"
          /\ exc' = "KeyError: model_cache"
          /\ UNCHANGED <<lang, code, language_models, results>>
     ELSE /\ \E order \in Orders(language_models) :
               results' = (Name(lang) :>
                             [i \in 1..Len(order) |-> model_cache[order[i]]])
                          @@ results
          /\ language_models' = {}
          /\ exc' = exc
          /\ IF ~LastLanguage
             THEN /\ lang' = lang + 1
                  /\ code' = 1
                  /\ pc' = pc
             ELSE /\ pc' = "matrix"
                  /\ UNCHANGED <<lang, code>>
  /\ UNCHANGED <<all_unique_models, todo, matrix, files, unfetched, listed,
                 statsVars, clientVars, callVars>>

\* ------------------------------------------- main: create_language_matrix
\* pd.DataFrame([]) has no columns, and sort_values on a column the frame
\* does not have raises KeyError.
CreateLanguageMatrix ==
  /\ pc = "matrix"
  /\ LET matrix_data == MatrixData(results) IN
     IF Len(matrix_data) = 0
     THEN /\ pc' = "error"
          /\ exc' = "KeyError: Languages_Supported"
          /\ matrix' = matrix
     ELSE /\ pc' = "save"
          /\ exc' = exc
          /\ matrix' = SortValues(matrix_data)
  /\ UNCHANGED <<lang, code, all_unique_models, todo, language_models,
                 results, files, unfetched, listed, statsVars, clientVars,
                 callVars>>

\* ----------------------------------------------------- main: save_results
SaveResults ==
  /\ pc = "save"
  /\ files' = SavedFiles(results, matrix)
  /\ pc' = "done"
  /\ UNCHANGED <<exc, lang, code, all_unique_models, todo, language_models,
                 results, matrix, unfetched, listed, statsVars, clientVars,
                 callVars>>

Next ==
  \/ CollectCode
  \/ StatsModel
  \/ StartOrganize
  \/ OrganizeCode
  \/ OrganizeLanguage
  \/ CreateLanguageMatrix
  \/ SaveResults

Spec == Init /\ [][Next]_vars

\* ----------------------------- get_model_names_for_language, page by page
\* A caller walks the codes of LANGUAGES as the collect pass does, and each
\* call runs one iteration of its page loop per step.
StartCall ==
  /\ call = "idle"
  /\ lang <= Len(LANGUAGES)
  /\ \E mp \in {DefaultMaxPages, ScrapeMaxPages} : max_pages' = mp
  /\ page' = 0
  /\ model_names' = <<>>
  /\ requests' = <<>>
  /\ responses' = <<>>
  /\ call' = "running"
  /\ UNCHANGED <<mainVars, statsVars, clientVars, lang, code,
                 all_unique_models>>

\* One iteration of `for page in range(max_pages)`; the call returns when the
\* iteration breaks or was the last.
FetchPage ==
  /\ call = "running"
  /\ \E r \in PageResponses :
       /\ requests' = Append(requests, page)
       /\ responses' = Append(responses, r)
       /\ model_names' = Extend(model_names, r)
       /\ IF Breaks(r) \/ page + 1 >= max_pages
          THEN call' = "returned" /\ page' = page
          ELSE call' = "running" /\ page' = page + 1
  /\ UNCHANGED <<mainVars, statsVars, clientVars, lang, code,
                 all_unique_models, max_pages>>

\* The caller takes the list returned and goes on to the next code.
NextCode ==
  /\ call = "returned"
  /\ all_unique_models' = Update(all_unique_models, model_names)
  /\ call' = "idle"
  /\ IF ~LastCode
     THEN code' = code + 1 /\ lang' = lang
     ELSE code' = 1 /\ lang' = lang + 1
  /\ UNCHANGED <<mainVars, statsVars, clientVars, max_pages, page,
                 model_names, requests, responses>>

NextListing == StartCall \/ FetchPage \/ NextCode

SpecListing == Init /\ [][NextListing]_vars

\* --------------------------------------------- get_model_stats, any calls
\* A client calls get_model_stats with any name, any number of times.
ClientCall ==
  /\ ncalls < MaxCalls
  /\ \E model_name \in Models, r1 \in DownloadsResponses,
        r2 \in LikesResponses :
       LET g == get_model_stats(model_cache, model_name, r1, r2) IN
       /\ model_cache' = g.cache
       /\ lookups' = [lookups EXCEPT
                        ![model_name] = @ + (IF g.gets > 0 THEN 1 ELSE 0)]
       /\ lastCall' = <<[name |-> model_name,
                         cached |-> model_name \in DOMAIN model_cache,
                         r1 |-> r1, r2 |-> r2, ret |-> g.ret,
                         gets |-> g.gets]>>
  /\ ncalls' = ncalls + 1
  /\ UNCHANGED <<mainVars, callVars, lang, code, all_unique_models>>

NextStats == ClientCall

SpecStats == Init /\ [][NextStats]_vars

\* =================================================================== claims

\* ------------------------------------------------------------------- C1
\* C1: over any sequence of get_model_stats calls, no name has more than one
\* lookup reach the network; once a name is in model_cache its record is
\* never changed, and a call for it returns that record and issues no GET.
C1_AtMostOneLookup ==
  [][ /\ \A m \in Models : lookups'[m] <= 1
      /\ \A m \in DOMAIN model_cache :
           /\ m \in DOMAIN model_cache'
           /\ model_cache'[m] = model_cache[m]
           /\ lookups'[m] = lookups[m]
      /\ (ncalls' # ncalls /\ lastCall'[1].name \in DOMAIN model_cache) =>
           /\ lastCall'[1].ret = model_cache[lastCall'[1].name]
           /\ lastCall'[1].gets = 0 ]_vars

\* A call for a name whose one lookup failed and left the zero placeholder:
\* the call is answered from the cache.
C1_Witness ==
  /\ lastCall # <<>>
  /\ lastCall[1].cached
  /\ lastCall[1].gets = 0
  /\ lookups[lastCall[1].name] = 1
  /\ lastCall[1].ret = ZeroStats(lastCall[1].name)
  /\ ncalls >= 2

\* ------------------------------------------------------------------- C2
\* C2: whatever the listing and stats fetches give, no step of main ends in
\* an uncaught exception.
C2_MainNeverRaises == pc # "error"

\* ------------------------------------------------------------------- C3
MatrixBuilt == pc \in {"save", "done"}

YesRows(l) == {i \in 1..Len(matrix) : matrix[i][l] = "Yes"}

\* C3: in the matrix built, the number of rows with language L set to Yes is
\* the number of unique names listed for L's codes, which is the length of
\* the result list of L.
C3_YesCountIsResultSize ==
  MatrixBuilt =>
    \A l \in LanguageNames :
      /\ Cardinality(YesRows(l)) = Len(results[l])
      /\ Cardinality(YesRows(l)) = Cardinality(listed[l])

\* A matrix with a model under both languages and another under one only.
C3_Witness ==
  /\ MatrixBuilt
  /\ Cardinality(YesRows("Zulu")) = 2
  /\ Cardinality(YesRows("Luo")) = 2
  /\ Len(matrix) = 3

\* ------------------------------------------------------------------- C4
\* The names whose stats lookup ran the except branch.
Failed == UNION {unfetched[l] : l \in LanguageNames}

\* The failed names a listing of either pass returned for language l.
DiscoveredFailed(l) == unfetched[l] \cup (listed[l] \cap Failed)

\* C4: when main is done, every name a listing returned for a language and
\* whose stats lookup failed is in that language's result list and has a
\* matrix row with zero downloads, all-time downloads and likes.
C4_FailedModelsStayInReport ==
  pc = "done" =>
    \A l \in LanguageNames : \A m \in DiscoveredFailed(l) :
      /\ \E i \in 1..Len(results[l]) : results[l][i].name = m
      /\ \E j \in 1..Len(matrix) :
           /\ matrix[j]["Model"] = m
           /\ matrix[j]["Downloads"] = 0
           /\ matrix[j]["Downloads_All_Time"] = 0
           /\ matrix[j]["Likes"] = 0

\* ------------------------------------------------------------------- C5
CallOnMiss == lastCall # <<>> /\ ~lastCall[1].cached

NetworkError(r) == r.raised
NonSuccess(r) == ~r.raised /\ r.status # 200
Malformed(r) == ~r.raised /\ r.status = 200 /\ ~r.json_ok

IsZero(rec) ==
  rec.downloads = 0 /\ rec.downloads_all_time = 0 /\ rec.likes = 0

\* C5 as stated: on a miss, a network error, a malformed payload or a
\* non-success status of either metadata call gives the all-zero record.
C5_AnyFailureGivesZeros ==
  CallOnMiss =>
    LET c == lastCall[1] IN
    (\/ NetworkError(c.r1) \/ Malformed(c.r1) \/ NonSuccess(c.r1)
     \/ NetworkError(c.r2) \/ Malformed(c.r2) \/ NonSuccess(c.r2)) =>
      IsZero(c.ret) /\ model_cache[c.name] = c.ret

\* C5 as amended: on a miss the record returned is the one stored; a network
\* error or a malformed payload (status 200) of either call gives the all-zero
\* record; a non-success status alone zeroes the fields of its own call only.
C5_ExceptionGivesZeros ==
  CallOnMiss =>
    LET c == lastCall[1] IN
    /\ model_cache[c.name] = c.ret
    /\ (NetworkError(c.r1) \/ Malformed(c.r1)) => IsZero(c.ret)
    /\ (NetworkError(c.r2) \/ Malformed(c.r2)) => IsZero(c.ret)
    /\ NonSuccess(c.r1) =>
         c.ret.downloads = 0 /\ c.ret.downloads_all_time = 0
    /\ NonSuccess(c.r2) => c.ret.likes = 0
    /\ (NonSuccess(c.r1) /\ c.r2.status = 200 /\ c.r2.json_ok
          /\ ~c.r2.raised) =>
         c.ret.likes = DictGet(c.r2.data, "likes", 0)

\* The likes call raises after a downloads call that returned counts.
C5_Witness ==
  /\ CallOnMiss
  /\ lastCall[1].r1.status = 200
  /\ lastCall[1].r1.json_ok
  /\ DictGet(lastCall[1].r1.data, "downloads", 0) > 0
  /\ NetworkError(lastCall[1].r2)
  /\ IsZero(lastCall[1].ret)

\* ------------------------------------------------------------------- C6
FailedFetch == \E i \in 1..Len(responses) : ~responses[i].ok

RECURSIVE Flatten(_, _)
Flatten(resps, n) ==
  IF n = 0 THEN <<>> ELSE Flatten(resps, n - 1) \o resps[n].page_models

\* C6 as stated: a call in which a page fetch failed returns the empty list.
C6_FailureReturnsEmpty ==
  (call = "returned" /\ FailedFetch) => model_names = <<>>

\* C6 as amended: a call in which a page fetch failed returns the names of
\* the pages before the failing one, in page order; that is the empty list
\* when the first page is the failing one.
C6_FailureReturnsEarlierPages ==
  (call = "returned" /\ FailedFetch) =>
    LET i == CHOOSE j \in 1..Len(responses) : ~responses[j].ok IN
    /\ i = Len(responses)
    /\ model_names = Flatten(responses, i - 1)
    /\ (i = 1 => model_names = <<>>)

\* The second page fails after a first page with names.
C6_Witness ==
  /\ call = "returned"
  /\ Len(responses) = 2
  /\ ~responses[2].ok
  /\ model_names # <<>>

\* ------------------------------------------------------------------- C7
\* C7: in the matrix built, every row's (Languages_Supported, Likes) pair is
\* at least the next row's, in lexicographic order.
C7_RowsDescend ==
  MatrixBuilt =>
    \A i \in 1..(Len(matrix) - 1) :
      \/ matrix[i]["Languages_Supported"] > matrix[i + 1]["Languages_Supported"]
      \/ /\ matrix[i]["Languages_Supported"]
              = matrix[i + 1]["Languages_Supported"]
         /\ matrix[i]["Likes"] >= matrix[i + 1]["Likes"]

\* Three rows that the sort had to reorder, with a tie on the count that the
\* likes break and a step down in the count.
C7_Witness ==
  /\ MatrixBuilt
  /\ Len(matrix) = 3
  /\ matrix # MatrixData(results)
  /\ \E i \in 1..2 :
       /\ matrix[i]["Languages_Supported"]
            = matrix[i + 1]["Languages_Supported"]
       /\ matrix[i]["Likes"] > matrix[i + 1]["Likes"]
  /\ matrix[1]["Languages_Supported"] > matrix[3]["Languages_Supported"]

\* ------------------------------------------------------------------- C8
Names(models) == {models[i].name : i \in 1..Len(models)}

\* C8: the result list of every language holds one record, the cached one,
\* per name in the union of the lists the organize pass got for its codes,
\* and no other; its file, when written, has that many rows.
C8_OneRecordPerListedName ==
  \A l \in DOMAIN results :
    /\ Names(results[l]) = listed[l]
    /\ Len(results[l]) = Cardinality(listed[l])
    /\ \A i \in 1..Len(results[l]) :
         results[l][i] = model_cache[results[l][i].name]
    /\ (pc = "done" /\ results[l] # <<>>) =>
         /\ Filename(l) \in DOMAIN files
         /\ files[Filename(l)] = Cardinality(listed[l])

\* Zulu's two codes list three names between them; its file has three rows.
C8_Witness ==
  /\ pc = "done"
  /\ listed["Zulu"] = Models
  /\ Len(results["Zulu"]) = 3
  /\ files[Filename("Zulu")] = 3

\* ------------------------------------------------------------------- C9
GoodPage(r) == r.ok /\ r.page_models # <<>>

\* C9: a call requests pages 0, 1, ... in order, at most max_pages of them,
\* and none after a page whose fetch failed or that parsed to no names; it
\* returns once a page is bad or max_pages pages were requested.
C9_PagesInOrderUntilBadPage ==
  /\ Len(requests) <= max_pages
  /\ Len(responses) = Len(requests)
  /\ \A i \in 1..Len(requests) : requests[i] = i - 1
  /\ \A i \in 1..(Len(responses) - 1) : GoodPage(responses[i])
  /\ call = "running" =>
       /\ Len(requests) < max_pages
       /\ \A i \in 1..Len(responses) : GoodPage(responses[i])
  /\ call = "returned" =>
       \/ Len(requests) = max_pages
       \/ ~GoodPage(responses[Len(responses)])

\* A call allowed three pages ends after an empty second page.
C9_Witness ==
  /\ call = "returned"
  /\ max_pages = DefaultMaxPages
  /\ requests = <<0, 1>>
  /\ responses[2].ok
  /\ responses[2].page_models = <<>>

\* ------------------------------------------------------------------ C10
\* C10: in the organize pass, every name the re-listing returned has a record
\* in model_cache when it is looked up.
C10_OrganizeFindsEveryName ==
  pc = "organize" => \A m \in language_models : m \in DOMAIN model_cache

====
